---- MODULE Spec2Model ----
(***************************************************************************)
(* Model of the looker_studio Odoo module:                                 *)
(*   models/report.py       LookerReport, LookerOrderReport                *)
(*   controllers/report.py  LookerReportController                         *)
(* Python falsy values (None, False, '') of text fields are written "".    *)
(* A vals dict is a function whose DOMAIN is the set of keys present.      *)
(***************************************************************************)
EXTENDS Bags, FiniteSets, Integers, Sequences, TLC

VARIABLES
    store,      \* the two report tables: model name -> sequence of rows (id = position)
    pc,         \* "idle", "called" (a call is being made) or "done" (it has returned or raised)
    call,       \* the operation being called and its arguments
    ensured,    \* the dicts _ensure_auto_descriptions returned during the call
    raised,     \* the exception the call ended with, or "none"
    tables,     \* the source tables: "crm.lead" and "sale.order" -> sequence of rows
    today,      \* fields.Date.context_today: a day of the month
    env,        \* what the ORM did during the call: the calls that raised, the row shape
    data,       \* the dict get_chart_data returned
    response    \* what a route handler answered

vars == <<store, pc, call, ensured, raised, tables, today, env, data, response>>

\* ---------------------------------------------------------------- bounds
MaxReports == 1
MaxList == 2
MaxRows == 3
MaxLimit == 2
MaxFails == 1

\* ------------------------------------------------------- the two models
CRM == "looker_studio.report"
ORDER == "looker_studio.order_report"
Models == {CRM, ORDER}

\* the data source each report model aggregates (Model = self.env[...])
SourceModel(m) == IF m = CRM THEN "crm.lead" ELSE "sale.order"

DescKeys == {"pie_description", "bar_description", "line_description"}

DefaultLimit == 1000

\* ------------------------------------- ir.model.fields rows that are read
\* field_description = "" stands for a row without a description.
IrModelFields ==
    { [model |-> "crm.lead", name |-> "stage_id", field_description |-> "Stage",
       ttype |-> "many2one", relation |-> "crm.stage"],
      [model |-> "crm.lead", name |-> "expected_revenue", field_description |-> "",
       ttype |-> "monetary", relation |-> ""],
      [model |-> "sale.order", name |-> "partner_id", field_description |-> "Customer",
       ttype |-> "many2one", relation |-> "res.partner"],
      [model |-> "sale.order", name |-> "amount_total", field_description |-> "Total",
       ttype |-> "monetary", relation |-> ""],
      [model |-> "res.partner", name |-> "country_id", field_description |-> "Country",
       ttype |-> "many2one", relation |-> "res.country"] }

\* self.env['ir.model.fields'].sudo().search([('model','=',m),('name','=',n)], limit=1)
\* the set of matching rows (empty or one row)
SearchField(m, n) == {f \in IrModelFields : f.model = m /\ f.name = n}

\* field names of the form top.sub, with the result of name.split('.')
DottedParts ==
    [x \in {"partner_id.country_id", "partner_id.city"} |->
        IF x = "partner_id.country_id" THEN <<"partner_id", "country_id">>
        ELSE <<"partner_id", "city">>]

IsDotted(n) == n \in DOMAIN DottedParts

\* field_name.replace('_', ' ') on the dotted names
ReplaceUnderscore(n) ==
    IF n = "partner_id.country_id" THEN "partner id.country id"
    ELSE IF n = "partner_id.city" THEN "partner id.city"
    ELSE n

\* LookerReport._crm_field_label and the local label() of _ensure_auto_descriptions
CrmFieldLabel(n) ==
    IF n = "" THEN ""
    ELSE LET fs == SearchField("crm.lead", n)
         IN  IF fs # {} /\ (CHOOSE f \in fs : TRUE).field_description # ""
             THEN (CHOOSE f \in fs : TRUE).field_description
             ELSE n

\* LookerOrderReport._order_field_label
OrderFieldLabel(n) ==
    IF n = "" THEN ""
    ELSE IF IsDotted(n)
    THEN LET top == DottedParts[n][1]
             sub == DottedParts[n][2]
             ft == SearchField("sale.order", top)
             f_top == CHOOSE f \in ft : TRUE
             top_label == IF ft # {} /\ f_top.field_description # ""
                          THEN f_top.field_description ELSE top
         IN  IF ft # {} /\ f_top.ttype = "many2one" /\ f_top.relation # ""
             THEN LET fsb == SearchField(f_top.relation, sub)
                      sub_label == IF fsb # {} /\ (CHOOSE f \in fsb : TRUE).field_description # ""
                                   THEN (CHOOSE f \in fsb : TRUE).field_description
                                   ELSE sub
                  IN  sub_label \o " (" \o top_label \o ")"
             ELSE ReplaceUnderscore(n)
    ELSE LET fs == SearchField("sale.order", n)
         IN  IF fs # {} /\ (CHOOSE f \in fs : TRUE).field_description # ""
             THEN (CHOOSE f \in fs : TRUE).field_description
             ELSE n

FieldLabel(m, n) == IF m = CRM THEN CrmFieldLabel(n) ELSE OrderFieldLabel(n)

\* the noun of the description templates of each model
\* ("khach hang tiem nang" = leads, "don hang" = orders; diacritics dropped)
Noun(m) == IF m = CRM THEN "khach hang tiem nang" ELSE "don hang"

FilterPart(domain) == IF domain # "" THEN " (co ap dung bo loc)" ELSE ""

\* the three texts _ensure_auto_descriptions builds from group_field, value_field, domain
PieText(m, group_field) ==
    IF group_field # ""
    THEN "Phan bo " \o Noun(m) \o " theo " \o FieldLabel(m, group_field) \o "."
    ELSE "Phan bo " \o Noun(m) \o "."

BarText(m, group_field, value_field) ==
    IF group_field # "" /\ value_field # ""
    THEN "Tong " \o FieldLabel(m, value_field) \o " theo " \o FieldLabel(m, group_field) \o "."
    ELSE IF group_field # ""
    THEN "So luong " \o Noun(m) \o " theo " \o FieldLabel(m, group_field) \o "."
    ELSE "Gia tri theo danh muc."

LineText(m, value_field, domain) ==
    IF value_field # ""
    THEN "Xu huong tong " \o FieldLabel(m, value_field)
            \o " theo ngay trong 14 ngay gan nhat" \o FilterPart(domain) \o "."
    ELSE "Xu huong so luong " \o Noun(m)
            \o " trong 14 ngay gan nhat" \o FilterPart(domain) \o "."

\* sval of the order report's builders: the label stripped, 'tong' replaced by
\* 'gia tri' and a leading 'tong ' removed (on the labels that occur)
StripTotal(label) ==
    IF label = "Tong" THEN "gia tri"
    ELSE IF label = "Tong tien" THEN "tien"
    ELSE label

\* _build_pie_description of both models
BuildPieDescription(m, rec) == PieText(m, rec.group_field)

\* _build_bar_description of both models
BuildBarDescription(m, rec) ==
    IF m = ORDER /\ rec.group_field # "" /\ rec.value_field # ""
    THEN "Tong " \o StripTotal(OrderFieldLabel(rec.value_field)) \o " theo "
            \o OrderFieldLabel(rec.group_field) \o "."
    ELSE BarText(m, rec.group_field, rec.value_field)

\* _build_line_description of both models
BuildLineDescription(m, rec) ==
    IF m = CRM /\ rec.success_domain # ""
    THEN "Xu huong ty le phan tram khach hang tiem nang theo ngay trong 14 ngay gan nhat"
            \o FilterPart(rec.domain) \o "."
    ELSE IF m = ORDER /\ rec.value_field # ""
    THEN "Xu huong tong " \o StripTotal(OrderFieldLabel(rec.value_field))
            \o " theo ngay trong 14 ngay gan nhat" \o FilterPart(rec.domain) \o "."
    ELSE LineText(m, rec.value_field, rec.domain)

\* vals.get(k)
Get(vals, k) == IF k \in DOMAIN vals THEN vals[k] ELSE ""

\* a recordset: the ids of `self` that are rows of the table (self.exists())
Exists(m, ids) == {i \in ids : i \in 1..Len(store[m])}

\* `x or y`
Or(x, y) == IF x # "" THEN x ELSE y

\* EnsureAutoDescriptions changed to fill a description whenever its value is empty,
\* present as a key or not
EnsureFillsEmpty(m, ids, vals) ==
    LET group_field == Get(vals, "group_field")
        value_field == Get(vals, "value_field")
        gen == [pie_description |-> PieText(m, group_field),
                bar_description |-> BarText(m, group_field, value_field),
                line_description |-> LineText(m, value_field, Get(vals, "domain"))]
    IN  [k \in DOMAIN vals \cup DescKeys |->
            IF k \in DescKeys /\ Get(vals, k) = "" THEN gen[k] ELSE vals[k]]

\* _ensure_auto_descriptions(self, vals) of both models; self is the recordset ids
EnsureAutoDescriptions(m, ids, vals) ==
    LET single == Cardinality(ids) = 1 /\ Exists(m, ids) # {}
        rec == store[m][CHOOSE i \in ids : TRUE]
        gf0 == Get(vals, "group_field")
        vf0 == Get(vals, "value_field")
        dom0 == Get(vals, "domain")
        group_field == IF gf0 = "" /\ single THEN Or(rec.group_field, gf0) ELSE gf0
        value_field == IF vf0 = "" /\ single THEN Or(rec.value_field, vf0) ELSE vf0
        domain == IF dom0 = "" /\ single THEN Or(rec.domain, dom0) ELSE dom0
        gen == [pie_description |-> PieText(m, group_field),
                bar_description |-> BarText(m, group_field, value_field),
                line_description |-> LineText(m, value_field, domain)]
    IN  [k \in DOMAIN vals \cup DescKeys |-> IF k \in DOMAIN vals THEN vals[k] ELSE gen[k]]

\* OnchangeAutoDescriptions changed to set the three descriptions without testing
\* whether they are empty
OnchangeOverwrites(m, rec) ==
    [rec EXCEPT !.pie_description = BuildPieDescription(m, rec),
                !.bar_description = BuildBarDescription(m, rec),
                !.line_description = BuildLineDescription(m, rec)]

\* _onchange_auto_descriptions of both models on one record of the form
OnchangeAutoDescriptions(m, rec) ==
    [rec EXCEPT !.pie_description = IF @ = "" THEN BuildPieDescription(m, rec) ELSE @,
                !.bar_description = IF @ = "" THEN BuildBarDescription(m, rec) ELSE @,
                !.line_description = IF @ = "" THEN BuildLineDescription(m, rec) ELSE @]

\* Validates changed to test group_field only
ValidatesGroupOnly(v) == Get(v, "group_field") # ""

\* the check of ensure_and_validate: group_field and value_field both given
Validates(v) == Get(v, "group_field") # "" /\ Get(v, "value_field") # ""

\* the row super().create stores for one vals dict: field defaults, then vals
NewRecord(m, v) ==
    LET base == [name |-> "", domain |-> "", group_field |-> "", value_field |-> "",
                 limit |-> DefaultLimit, pie_description |-> "", bar_description |-> "",
                 line_description |-> ""]
        flds == IF m = CRM THEN base @@ [success_domain |-> ""] ELSE base
    IN  [k \in DOMAIN flds |-> IF k \in DOMAIN v THEN v[k] ELSE flds[k]]

\* super().write(vals) on one row
Updated(rec, v) == [k \in DOMAIN rec |-> IF k \in DOMAIN v THEN v[k] ELSE rec[k]]

RECURSIVE MapNew(_, _)
MapNew(m, vs) == IF vs = <<>> THEN <<>> ELSE <<NewRecord(m, Head(vs))>> \o MapNew(m, Tail(vs))

\* ------------------------------------------------- the ORM the code calls
\* Dates are day numbers of one month; datetimes carry no time of day.
\* date.strftime('%Y-%m-%d')
IsoDay(d) == "2026-01-" \o (IF d < 10 THEN "0" ELSE "") \o ToString(d)

\* datetime.strftime('%Y-%m-%d 00:00:00')
DtStr(d) == IsoDay(d) \o " 00:00:00"

\* the day a '%Y-%m-%d 00:00:00' string denotes, as the ORM parses it
ParseDt(s) == CHOOSE d \in 0..31 : DtStr(d) = s

\* safe_eval of a stored domain text: [ok |-> FALSE] when it raises
SafeEval(text) ==
    IF text = "[('flag','=',True)]"
        THEN [ok |-> TRUE, val |-> <<[field |-> "flag", op |-> "=", value |-> TRUE]>>]
    ELSE IF text = "[]" THEN [ok |-> TRUE, val |-> <<>>]
    ELSE [ok |-> FALSE]

\* EvalDomain changed to answer a text that cannot be evaluated with a domain no
\* row matches
EvalDomainNothing(rec) ==
    IF rec.domain = "" THEN <<>>
    ELSE IF SafeEval(rec.domain).ok THEN SafeEval(rec.domain).val
    ELSE <<[field |-> "flag", op |-> "=", value |-> "error"]>>

\* _eval_domain of both models
EvalDomain(rec) ==
    IF rec.domain = "" THEN <<>>
    ELSE IF SafeEval(rec.domain).ok THEN SafeEval(rec.domain).val
    ELSE <<>>

\* one domain term on one row of a source table
TermHolds(row, t) ==
    IF t.field = "create_date"
    THEN IF t.op = ">=" THEN row.create_date >= ParseDt(t.value)
         ELSE row.create_date < ParseDt(t.value)
    ELSE row[t.field] = t.value

\* Model.search(domain): the rows matching every term, in id order
RECURSIVE Search(_, _)
Search(table, domain) ==
    IF table = <<>> THEN <<>>
    ELSE (IF \A i \in 1..Len(domain) : TermHolds(Head(table), domain[i])
          THEN <<Head(table)>> ELSE <<>>) \o Search(Tail(table), domain)

\* Model.search_count(domain)
SearchCount(table, domain) == Len(Search(table, domain))

\* sum(seq)
RECURSIVE SumSeq(_)
SumSeq(seq) == IF seq = <<>> THEN 0 ELSE Head(seq) + SumSeq(Tail(seq))

RECURSIVE SumField(_, _)
SumField(found, f) == IF found = <<>> THEN 0 ELSE Head(found)[f] + SumField(Tail(found), f)

RECURSIVE Select(_, _, _)
Select(found, f, x) ==
    IF found = <<>> THEN <<>>
    ELSE (IF Head(found)[f] = x THEN <<Head(found)>> ELSE <<>>) \o Select(Tail(found), f, x)

\* the values of seq's rows under f, ascending, the unset value 0 last
RECURSIVE Ascending(_)
Ascending(S) ==
    IF S = {} THEN <<>>
    ELSE IF S = {0} THEN <<0>>
    ELSE LET x == CHOOSE y \in S \ {0} : \A z \in S \ {0} : y <= z
         IN  <<x>> \o Ascending(S \ {x})

\* display names of the records a many2one group key points to
DisplayName(f, id) ==
    IF f = "stage_id" THEN (IF id = 1 THEN "New" ELSE IF id = 2 THEN "Won" ELSE "New")
    ELSE "Partner " \o ToString(id)

\* the value of a group key g.get(field): a (id, name) pair, a scalar, or nothing
PairKey(id, name) == [kind |-> "pair", id |-> id, name |-> name]
ScalarKey(v, text) == [kind |-> "scalar", id |-> v, name |-> text]
NoKey == [kind |-> "none", id |-> 0, name |-> "None"]

\* Model.read_group(domain, [f, vf], [f], lazy=False): one row per value of the
\* many2one field f, with __count and the sum of vf (vf = "": no sum column)
ReadGroup(table, domain, f, vf) ==
    LET found == Search(table, domain)
        ks == Ascending({found[i][f] : i \in 1..Len(found)})
    IN  [i \in 1..Len(ks) |->
            LET part == Select(found, f, ks[i])
            IN  [key |-> IF ks[i] = 0 THEN ScalarKey(0, "")
                         ELSE PairKey(ks[i], DisplayName(f, ks[i])),
                 count |-> Len(part),
                 value |-> IF vf = "" THEN 0 ELSE SumField(part, vf)]]

\* the ways a read_group row grouped by 'create_date:day' can answer
\* g.get('create_date'): with the day as a '%Y-%m-%d' string, or with None, the row
\* being keyed by its groupby specification 'create_date:day' (as the rows of the
\* grouped calls are keyed by theirs, group_field)
DayKeyShapes == {"iso", "spec_key"}

\* Model.read_group(domain, ['create_date', vf], ['create_date:day'], lazy=False)
ReadGroupByDay(table, domain, vf, shape) ==
    LET found == Search(table, domain)
        ks == Ascending({found[i].create_date : i \in 1..Len(found)})
    IN  [i \in 1..Len(ks) |->
            LET part == Select(found, "create_date", ks[i])
            IN  [key |-> IF shape = "iso" THEN ScalarKey(ks[i], IsoDay(ks[i])) ELSE NoKey,
                 count |-> Len(part),
                 value |-> IF vf = "" THEN 0 ELSE SumField(part, vf)]]

\* Model.read_group(domain, [vf], [], lazy=False): one row with the total
ReadGroupAll(table, domain, vf) ==
    LET found == Search(table, domain)
    IN  <<[count |-> Len(found), value |-> SumField(found, vf)]>>

\* key[0] if isinstance(key, (list, tuple)) else key
Gid(key) == key.id

\* key[1] if isinstance(key, (list, tuple)) and len(key) > 1 else (key or 'Undefined')
Lbl(key) ==
    IF key.kind = "pair" THEN key.name
    ELSE IF key.id = 0 THEN "Undefined" ELSE key.name

\* str(day) of the time-series loops
DayStr(key) ==
    IF key.kind = "pair" THEN key.id
    ELSE key.name

\* round(n / d, 0) on exact quotients: Python rounds halves to the even neighbour
RoundDiv(n, d) ==
    LET q == n \div d
        r == n % d
    IN  IF 2 * r < d THEN q
        ELSE IF 2 * r > d THEN q + 1
        ELSE IF q % 2 = 0 THEN q ELSE q + 1

\* sorted(entries, key=lambda x: x[k], reverse=True): stable, descending
RECURSIVE SortedDesc(_, _)
SortedDesc(entries, k) ==
    IF entries = <<>> THEN <<>>
    ELSE LET best == CHOOSE i \in 1..Len(entries) :
                        /\ \A j \in 1..Len(entries) : entries[j][k] <= entries[i][k]
                        /\ \A j \in 1..(i - 1) : entries[j][k] < entries[i][k]
             rest == [j \in 1..(Len(entries) - 1) |->
                        IF j < best THEN entries[j] ELSE entries[j + 1]]
         IN  <<entries[best]>> \o SortedDesc(rest, k)

\* seq[:n]
Take(seq, n) == [i \in 1..(IF n < Len(seq) THEN n ELSE Len(seq)) |-> seq[i]]

\* int(self.limit) if getattr(self, 'limit', 0) and int(self.limit) > 0 else 0
LimitN(rec) == IF rec.limit > 0 THEN rec.limit ELSE 0

\* TopN changed to cut the list without sorting it
TopNUnsorted(rec, entries) ==
    IF LimitN(rec) # 0 /\ Len(entries) > LimitN(rec) THEN Take(entries, LimitN(rec))
    ELSE entries

\* Top-N: keep the limit_n entries with the largest sum (value_field set) or count
TopN(rec, entries) ==
    IF LimitN(rec) # 0 /\ Len(entries) > LimitN(rec)
    THEN Take(SortedDesc(entries, IF rec.value_field # "" THEN "sum" ELSE "count"), LimitN(rec))
    ELSE entries

\* FailureResult changed to what a missing outer try would give: the exception
Propagated == [exception |-> "Exception"]

\* the result of the outer except branch
FailureResult ==
    [labels |-> <<>>, count_values |-> <<>>, sum_values |-> <<>>,
     line_labels |-> <<>>, line_values |-> <<>>]

N == 14

\* ts_domain = list(domain) + [('create_date','>=',start_dt), ('create_date','<',end_dt)]
TsDomain(domain, today_dt) ==
    domain \o <<[field |-> "create_date", op |-> ">=", value |-> DtStr(today_dt - (N - 1))],
                [field |-> "create_date", op |-> "<", value |-> DtStr(today_dt + 1)]>>

\* dict lookups on a sequence of read_group rows: the last row with the key wins
HasKey(rows, k, keyOf(_)) == \E i \in 1..Len(rows) : keyOf(rows[i].key) = k
LastWith(rows, k, keyOf(_)) ==
    rows[CHOOSE i \in 1..Len(rows) :
            /\ keyOf(rows[i].key) = k
            /\ \A j \in (i + 1)..Len(rows) : keyOf(rows[j].key) # k]

\* -------------------------------------------------------- get_chart_data
\* The ORM calls of get_chart_data that can raise, by the place of the call:
\* "groups", "sum": the two grouped read_group calls; "count": search_count;
\* "total": read_group without groupby; "search": Model.search of the weekday
\* branch; "related": browse and getattr of the dotted branch; "ts", "ts_success":
\* the time-series read_group calls.
ModelSites(m) ==
    IF m = CRM THEN {"groups", "sum", "count", "total", "ts", "ts_success"}
    ELSE {"groups", "sum", "count", "total", "search", "related", "ts"}

\* A float rounded to one decimal is written as its number of tenths
\* (round(perc, 1) = 33.3 is 333); counts and sums are written as they are.

\* the entries of the grouped branches before the limit: one per read_group row
GroupEntries(rec, table, domain, f, fails) ==
    LET groups == IF "groups" \in fails THEN <<>> ELSE ReadGroup(table, domain, f, "")
        grp_sum == IF rec.value_field = "" \/ "sum" \in fails THEN <<>>
                   ELSE ReadGroup(table, domain, f, rec.value_field)
    IN  [i \in 1..Len(groups) |->
            LET gid == Gid(groups[i].key)
                cnt == groups[i].count
            IN  [gid |-> gid, label |-> Lbl(groups[i].key), count |-> cnt,
                 sum |-> IF HasKey(grp_sum, gid, Gid) THEN LastWith(grp_sum, gid, Gid).value
                         ELSE IF rec.value_field = "" THEN cnt ELSE 0]]

\* Columns changed to append to sum_values only the sums that are not zero
ColumnsOwnSums(entries) ==
    [labels |-> [i \in 1..Len(entries) |-> entries[i].label],
     count_values |-> [i \in 1..Len(entries) |-> entries[i].count],
     sum_values |-> SelectSeq([i \in 1..Len(entries) |-> entries[i].sum], LAMBDA x : x # 0)]

\* labels, count_values, sum_values from a list of entries
Columns(entries) ==
    [labels |-> [i \in 1..Len(entries) |-> entries[i].label],
     count_values |-> [i \in 1..Len(entries) |-> entries[i].count],
     sum_values |-> [i \in 1..Len(entries) |-> entries[i].sum]]

\* the branch without group_field: one category 'All'
AllColumns(rec, table, domain) ==
    LET total == SearchCount(table, domain)
        rows == ReadGroupAll(table, domain, rec.value_field)
    IN  [labels |-> <<"All">>, count_values |-> <<total>>,
         sum_values |-> IF rec.value_field # "" THEN <<rows[1].value>> ELSE <<total>>]

\* an uncaught exception of the branch without group_field
AllRaises(rec, fails) ==
    "count" \in fails \/ (rec.value_field # "" /\ "total" \in fails)

\* the success domain of a CRM report: safe_eval(self.success_domain) or []
SuccessDom(rec) ==
    IF rec.success_domain # "" /\ SafeEval(rec.success_domain).ok
    THEN SafeEval(rec.success_domain).val
    ELSE <<>>

\* line_labels and line_values of both models; success_dom = <<>> for order reports
TimeSeries(rec, table, domain, success_dom, today_dt, fails, shape) ==
    LET ts_domain == TsDomain(domain, today_dt)
        ts_groups == IF "ts" \in fails THEN <<>>
                     ELSE ReadGroupByDay(table, ts_domain, rec.value_field, shape)
        ts_success == IF success_dom = <<>> \/ "ts_success" \in fails THEN <<>>
                      ELSE ReadGroupByDay(table, ts_domain \o success_dom, "", shape)
        \* ts_map.get(day_str, 0)
        TsMap(day_str) ==
            IF HasKey(ts_groups, day_str, DayStr)
            THEN (IF rec.value_field # "" THEN LastWith(ts_groups, day_str, DayStr).value
                  ELSE LastWith(ts_groups, day_str, DayStr).count)
            ELSE 0
        \* ts_success_map.get(day_str, 0)
        TsSuccessMap(day_str) ==
            IF HasKey(ts_success, day_str, DayStr)
            THEN LastWith(ts_success, day_str, DayStr).count
            ELSE 0
        DayOf(i) == today_dt - (N - i)
    IN  [line_labels |-> [i \in 1..N |-> IsoDay(DayOf(i))],
         line_values |-> [i \in 1..N |->
            LET day_str == IsoDay(DayOf(i))
            IN  IF success_dom # <<>>
                THEN (IF TsMap(day_str) # 0
                      THEN RoundDiv(TsSuccessMap(day_str) * 1000, TsMap(day_str))
                      ELSE 0)
                ELSE TsMap(day_str)]]

\* LookerReport.get_chart_data on the row rec, with the crm.lead rows in table
CrmChartData(rec, table, today_dt, fails, shape) ==
    LET domain == EvalDomain(rec)
        cols == IF rec.group_field # ""
                THEN Columns(TopN(rec, GroupEntries(rec, table, domain, rec.group_field, fails)))
                ELSE AllColumns(rec, table, domain)
    IN  IF rec.group_field = "" /\ AllRaises(rec, fails)
        THEN FailureResult
        ELSE cols @@ TimeSeries(rec, table, domain, SuccessDom(rec), today_dt, fails, shape)

\* datetime.weekday() of a day of the month (0 = Monday)
Weekday(d) == (d + 2) % 7

Days == <<"Thu 2", "Thu 3", "Thu 4", "Thu 5", "Thu 6", "Thu 7", "Chu Nhat">>

\* WeekdayColumns changed to drop the `if not dt: continue` test: an order without
\* date_order is counted on the weekday of day 0
WeekdayColumnsUndated(rec, table, domain) ==
    LET rows == Search(table, domain)
        dated == [wd \in 0..6 |-> SelectSeq(rows, LAMBDA r : Weekday(r.date_order) = wd)]
    IN  [labels |-> Days,
         count_values |-> [i \in 1..7 |-> Len(dated[i - 1])],
         sum_values |-> [i \in 1..7 |->
            IF rec.value_field # "" THEN SumField(dated[i - 1], rec.value_field) ELSE 0]]

\* the weekday branch of LookerOrderReport.get_chart_data
WeekdayColumns(rec, table, domain) ==
    LET rows == Search(table, domain)
        dated == [wd \in 0..6 |->
                    SelectSeq(rows, LAMBDA r : r.date_order # 0 /\ Weekday(r.date_order) = wd)]
    IN  [labels |-> Days,
         count_values |-> [i \in 1..7 |-> Len(dated[i - 1])],
         sum_values |-> [i \in 1..7 |->
            IF rec.value_field # "" THEN SumField(dated[i - 1], rec.value_field) ELSE 0]]

\* res.partner: the country_id of each partner (0: not set) and res.country names
PartnerCountry(partner) == IF partner \in {1, 2} THEN 1 ELSE 0
CountryName(country) == "Country " \o ToString(country)

\* rel_model of the dotted branch: the relation of the top field when it is many2one
RelModel(top) ==
    LET ft == SearchField("sale.order", top)
    IN  IF ft # {} /\ (CHOOSE f \in ft : TRUE).ttype = "many2one"
        THEN (CHOOSE f \in ft : TRUE).relation
        ELSE ""

\* rel_id and rel_label of one top-level group of the dotted branch
Related(rec, key, fails) ==
    LET gid == Gid(key)
        top == DottedParts[rec.group_field][1]
    IN  IF gid = 0 THEN [rel_id |-> 0, rel_label |-> "Undefined"]
        ELSE IF RelModel(top) # ""
        THEN (IF "related" \in fails \/ PartnerCountry(gid) = 0
              THEN [rel_id |-> 0, rel_label |-> "Undefined"]
              ELSE [rel_id |-> PartnerCountry(gid),
                    rel_label |-> CountryName(PartnerCountry(gid))])
        ELSE [rel_id |-> gid, rel_label |-> Lbl(key)]

\* DottedEntries changed to keep one entry per top-level group instead of one per
\* rel_id
DottedEntriesUnmerged(rec, table, domain, fails) ==
    LET top == DottedParts[rec.group_field][1]
        groups == IF "groups" \in fails THEN <<>> ELSE ReadGroup(table, domain, top, "")
        grp_sum == IF rec.value_field = "" \/ "sum" \in fails THEN <<>>
                   ELSE ReadGroup(table, domain, top, rec.value_field)
        rel == [i \in 1..Len(groups) |-> Related(rec, groups[i].key, fails)]
    IN  [i \in 1..Len(groups) |->
            [gid |-> rel[i].rel_id, label |-> rel[i].rel_label, count |-> groups[i].count,
             sum |-> IF Gid(groups[i].key) # 0 /\ HasKey(grp_sum, Gid(groups[i].key), Gid)
                     THEN LastWith(grp_sum, Gid(groups[i].key), Gid).value
                     ELSE 0]]

\* the buckets of the dotted branch, in the order their rel_id first occurs
DottedEntries(rec, table, domain, fails) ==
    LET top == DottedParts[rec.group_field][1]
        groups == IF "groups" \in fails THEN <<>> ELSE ReadGroup(table, domain, top, "")
        grp_sum == IF rec.value_field = "" \/ "sum" \in fails THEN <<>>
                   ELSE ReadGroup(table, domain, top, rec.value_field)
        rel == [i \in 1..Len(groups) |-> Related(rec, groups[i].key, fails)]
        \* rel_sum of group i: 0.0 without gid, else sum_map_per_top.get(gid, 0.0)
        RelSum(i) ==
            IF Gid(groups[i].key) # 0 /\ HasKey(grp_sum, Gid(groups[i].key), Gid)
            THEN LastWith(grp_sum, Gid(groups[i].key), Gid).value
            ELSE 0
        firsts == SelectSeq([i \in 1..Len(groups) |-> i],
                            LAMBDA i : \A j \in 1..(i - 1) : rel[j].rel_id # rel[i].rel_id)
    IN  [b \in 1..Len(firsts) |->
            LET id == rel[firsts[b]].rel_id
            IN  [gid |-> id, label |-> rel[firsts[b]].rel_label,
                 count |-> SumSeq([i \in 1..Len(groups) |->
                              IF rel[i].rel_id = id THEN groups[i].count ELSE 0]),
                 sum |-> SumSeq([i \in 1..Len(groups) |->
                              IF rel[i].rel_id = id THEN RelSum(i) ELSE 0])]]

\* LookerOrderReport.get_chart_data on the row rec, with the sale.order rows in table
OrderChartData(rec, table, today_dt, fails, shape) ==
    LET domain == EvalDomain(rec)
        gf == rec.group_field
        cols == IF gf = "date_order_weekday" THEN WeekdayColumns(rec, table, domain)
                ELSE IF gf # "" /\ IsDotted(gf)
                    THEN Columns(TopN(rec, DottedEntries(rec, table, domain, fails)))
                ELSE IF gf # ""
                    THEN Columns(GroupEntries(rec, table, domain, gf, fails))
                ELSE AllColumns(rec, table, domain)
        raises == \/ gf = "date_order_weekday" /\ "search" \in fails
                  \/ gf = "" /\ AllRaises(rec, fails)
    IN  IF raises THEN FailureResult
        ELSE cols @@ TimeSeries(rec, table, domain, <<>>, today_dt, fails, shape)

\* record.get_chart_data() of either model
GetChartData(m, rec, table, today_dt, fails, shape) ==
    IF m = CRM THEN CrmChartData(rec, table, today_dt, fails, shape)
    ELSE OrderChartData(rec, table, today_dt, fails, shape)

\* ------------------------------------------------------ inputs of the calls
GroupFieldOf(m) == IF m = CRM THEN "stage_id" ELSE "partner_id"
ValueFieldOf(m) == IF m = CRM THEN "expected_revenue" ELSE "amount_total"

\* all dicts over a subset of the keys of choice, each key with one of its values
ValsOver(choice) ==
    UNION { {f \in [S -> UNION {choice[k] : k \in S}] : \A k \in S : f[k] \in choice[k]}
            : S \in SUBSET DOMAIN choice }

RequiredChoice(m) ==
    [group_field |-> {"", GroupFieldOf(m)}, value_field |-> {"", ValueFieldOf(m)}]

\* vals of a create: name is required by the table, the rest is optional
CreateVals(m) ==
    {[name |-> "n"] @@ v :
        v \in ValsOver(RequiredChoice(m) @@ [pie_description |-> {"", "custom"}])}

\* entries of a list create: complete, or with one required field left out
ListVals(m) ==
    {[name |-> "n"] @@ v :
        v \in {w \in ValsOver(RequiredChoice(m)) : \A k \in DOMAIN w : w[k] # ""}}

WriteVals(m) ==
    ValsOver(RequiredChoice(m) @@ [name |-> {"n2"}, pie_description |-> {"custom"}])

SeqsUpTo(S, n) == UNION {[1..k -> S] : k \in 1..n}

TotalStored == Len(store[CRM]) + Len(store[ORDER])

\* ----------------------------------------------------------------- actions
NoCall == [op |-> "none"]
NoEnv == [fails |-> {}, shape |-> "none"]
NoData == [none |-> TRUE]
NoResponse == [status |-> "none"]

TodayChoices == {20}

\* no call in progress, nothing returned yet
Quiet ==
    /\ pc = "idle"
    /\ call = NoCall
    /\ ensured = <<>>
    /\ raised = "none"
    /\ env = NoEnv
    /\ data = NoData
    /\ response = NoResponse

\* both report tables and both source tables empty
Init ==
    /\ store = [m \in Models |-> <<>>]
    /\ tables = [sm \in {"crm.lead", "sale.order"} |-> <<>>]
    /\ today \in TodayChoices
    /\ Quiet

outputs == <<env, data, response>>
database == <<tables, today>>

\* a caller invokes Model.create(vals) with one dict
CallCreateOne ==
    /\ pc = "idle"
    /\ \E m \in Models : \E v \in CreateVals(m) :
          call' = [op |-> "create", model |-> m, vals |-> <<v>>, is_list |-> FALSE]
    /\ pc' = "called"
    /\ UNCHANGED <<store, ensured, raised, database, outputs>>

\* a caller invokes Model.create(vals) with a list of dicts
CallCreateList ==
    /\ pc = "idle"
    /\ \E m \in Models : \E vs \in SeqsUpTo(ListVals(m), MaxList) :
          call' = [op |-> "create", model |-> m, vals |-> vs, is_list |-> TRUE]
    /\ pc' = "called"
    /\ UNCHANGED <<store, ensured, raised, database, outputs>>

\* a caller invokes recordset.write(vals) with a dict
CallWrite ==
    /\ pc = "idle"
    /\ \E m \in Models : \E ids \in SUBSET (1..Len(store[m])) : \E v \in WriteVals(m) :
          call' = [op |-> "write", model |-> m, ids |-> ids, vals |-> v]
    /\ pc' = "called"
    /\ UNCHANGED <<store, ensured, raised, database, outputs>>

\* the first entry of vs that ensure_and_validate rejects, 0 when there is none
FirstInvalid(vs) ==
    IF \E i \in 1..Len(vs) : ~Validates(vs[i])
    THEN CHOOSE i \in 1..Len(vs) : ~Validates(vs[i]) /\ \A j \in 1..(i - 1) : Validates(vs[j])
    ELSE 0

\* LookerReport.create / LookerOrderReport.create
Create ==
    /\ pc = "called" /\ call.op = "create"
    /\ LET m == call.model
           vs == call.vals
           bad == FirstInvalid(vs)
       IN  IF bad # 0
           THEN \* ensure_and_validate raises before super().create is reached
                /\ raised' = "UserError"
                /\ ensured' = [i \in 1..(bad - 1) |-> EnsureAutoDescriptions(m, {}, vs[i])]
                /\ UNCHANGED store
           ELSE LET out == [i \in 1..Len(vs) |-> EnsureAutoDescriptions(m, {}, vs[i])]
                IN  /\ raised' = "none"
                    /\ ensured' = out
                    /\ store' = [store EXCEPT ![m] = @ \o MapNew(m, out)]
    /\ pc' = "done"
    /\ UNCHANGED <<call, database, outputs>>

\* LookerReport.write / LookerOrderReport.write
Write ==
    /\ pc = "called" /\ call.op = "write"
    /\ LET m == call.model
           out == EnsureAutoDescriptions(m, call.ids, call.vals)
       IN  /\ ensured' = <<out>>
           /\ raised' = "none"
           /\ store' = [store EXCEPT ![m] =
                 [i \in 1..Len(@) |-> IF i \in call.ids THEN Updated(@[i], out) ELSE @[i]]]
    /\ pc' = "done"
    /\ UNCHANGED <<call, database, outputs>>

\* the records a form view holds while a new report is filled in
FormRecords(m) ==
    LET common == [name : {"n"}, domain : {"", "[('flag','=',True)]"},
                   group_field : {"", GroupFieldOf(m)}, value_field : {"", ValueFieldOf(m)},
                   limit : {DefaultLimit}, pie_description : {"", "custom"},
                   bar_description : {"", "custom"}, line_description : {"", "custom"}]
    IN  IF m = CRM
        THEN {r @@ [success_domain |-> sd] : r \in common, sd \in {"", "[('flag','=',True)]"}}
        ELSE common

\* the form of a new report changes group_field, value_field or domain
CallOnchange ==
    /\ pc = "idle" /\ TotalStored = 0
    /\ \E m \in Models : \E r \in FormRecords(m) :
          call' = [op |-> "onchange", model |-> m, rec |-> r]
    /\ pc' = "called"
    /\ UNCHANGED <<store, ensured, raised, database, outputs>>

\* LookerReport._onchange_auto_descriptions / LookerOrderReport._onchange_auto_descriptions
Onchange ==
    /\ pc = "called" /\ call.op = "onchange"
    /\ call' = [call EXCEPT !.rec = OnchangeAutoDescriptions(call.model, call.rec)]
    /\ pc' = "done"
    /\ UNCHANGED <<store, ensured, raised, database, outputs>>

\* the caller is done with the result of the call
Return ==
    /\ pc = "done"
    /\ pc' = "idle"
    /\ call' = NoCall
    /\ ensured' = <<>>
    /\ raised' = "none"
    /\ env' = NoEnv
    /\ data' = NoData
    /\ response' = NoResponse
    /\ UNCHANGED <<store, database>>

\* the tables have room for the rows the create being called would store
HasRoom == FirstInvalid(call'.vals) = 0 => TotalStored + Len(call'.vals) <= MaxReports

CrudNext ==
    \/ CallCreateOne /\ HasRoom
    \/ CallCreateList /\ HasRoom
    \/ CallWrite
    \/ CallOnchange
    \/ Create
    \/ Write
    \/ Onchange
    \/ Return

CrudSpec == Init /\ [][CrudNext]_vars

\* ------------------------------------------- reports over a filled database
\* the rows a source table is filled from
LeadRows(t) ==
    <<[stage_id |-> 1, expected_revenue |-> 0, create_date |-> t, flag |-> TRUE,
       probability |-> 80],
      [stage_id |-> 1, expected_revenue |-> 0, create_date |-> t, flag |-> FALSE,
       probability |-> 25],
      [stage_id |-> 2, expected_revenue |-> 3, create_date |-> t - (N - 1), flag |-> TRUE,
       probability |-> 50],
      [stage_id |-> 0, expected_revenue |-> 1, create_date |-> t - N, flag |-> FALSE,
       probability |-> 40]>>

OrderRows(t) ==
    <<[partner_id |-> 1, amount_total |-> 2, create_date |-> t, date_order |-> t,
       flag |-> TRUE],
      [partner_id |-> 2, amount_total |-> 1, create_date |-> t - (N - 1),
       date_order |-> t - 1, flag |-> FALSE],
      [partner_id |-> 3, amount_total |-> 4, create_date |-> t, date_order |-> 0,
       flag |-> TRUE],
      [partner_id |-> 0, amount_total |-> 1, create_date |-> t - N, date_order |-> t,
       flag |-> FALSE]>>

SourceRows(sm, t) == IF sm = "crm.lead" THEN LeadRows(t) ELSE OrderRows(t)

\* the tables of at most MaxRows rows, listed up to the order of their rows
\* (no aggregation depends on it)
Tables(sm, t) ==
    LET rows == SourceRows(sm, t)
        picks == {p \in {<<>>} \cup SeqsUpTo(1..Len(rows), MaxRows) :
                    \A i \in 1..(Len(p) - 1) : p[i] <= p[i + 1]}
    IN  {[i \in 1..Len(p) |-> rows[p[i]]] : p \in picks}

DomainTexts == {"", "[('flag','=',True)]", "[("}

GroupFields(m) ==
    IF m = CRM THEN {"", "stage_id"}
    ELSE {"", "partner_id", "partner_id.country_id", "date_order_weekday"}

\* the stored reports get_chart_data is called on
ChartReports(m) ==
    LET common == [name : {"n"}, domain : DomainTexts, group_field : GroupFields(m),
                   value_field : {"", ValueFieldOf(m)}, limit : 0..MaxLimit,
                   pie_description : {""}, bar_description : {""},
                   line_description : {""}]
    IN  IF m = CRM
        THEN {r @@ [success_domain |-> sd] : r \in common, sd \in DomainTexts}
        ELSE common

\* one stored report of one model, and rows in the table it aggregates
ChartInit ==
    /\ today \in TodayChoices
    /\ \E m \in Models :
          /\ \E r \in ChartReports(m) : store = [x \in Models |-> IF x = m THEN <<r>> ELSE <<>>]
          /\ \E tb \in Tables(SourceModel(m), today) :
                tables = [sm \in {"crm.lead", "sale.order"} |->
                            IF sm = SourceModel(m) THEN tb ELSE <<>>]
    /\ Quiet

\* the ORM calls that raise during one call: at most MaxFails of the given places
FailSets(sites) == {f \in SUBSET sites : Cardinality(f) <= MaxFails}

\* a caller invokes get_chart_data() on one stored report
CallGetChartData ==
    /\ pc = "idle"
    /\ \E m \in Models : \E id \in 1..Len(store[m]) :
          call' = [op |-> "get_chart_data", model |-> m, id |-> id]
    /\ pc' = "called"
    /\ UNCHANGED <<store, ensured, raised, database, outputs>>

\* LookerReport.get_chart_data / LookerOrderReport.get_chart_data
ChartData ==
    /\ pc = "called" /\ call.op = "get_chart_data"
    /\ \E fails \in FailSets(ModelSites(call.model)) : \E shape \in DayKeyShapes :
          LET m == call.model
              res == GetChartData(m, store[m][call.id], tables[SourceModel(m)], today,
                                  fails, shape)
          IN  /\ env' = [fails |-> fails, shape |-> shape]
              /\ IF "exception" \in DOMAIN res
                 THEN raised' = res.exception /\ data' = NoData
                 ELSE raised' = "none" /\ data' = res
    /\ pc' = "done"
    /\ UNCHANGED <<store, call, ensured, database, response>>

ChartNext == CallGetChartData \/ ChartData \/ Return

ChartSpec == ChartInit /\ [][ChartNext]_vars

\* ------------------------------------------------------- the route handlers
\* The ORM calls of the controller that can raise: "c_count": search_count of the
\* totals; "c_success": search_count of the success leads; "c_groups": read_group
\* of the probability block; "c_search": Model.search of the probability block.
ControllerSites(m) ==
    IF m = CRM THEN {"c_count", "c_success", "c_groups", "c_search"} ELSE {"c_count"}

\* json.dumps(x): the text that json.loads reads back as x
Dumps(x) == [json |-> x]

\* A float rounded to two decimals is written as its number of hundredths.

Zeros(n) == [i \in 1..n |-> 0]

\* round(sum(lead.probability or 0.0 for lead in leads) / len(leads), 1), in tenths
AvgProbability(leads) == RoundDiv(SumField(leads, "probability") * 10, Len(leads))

\* probability_values of render_report
ProbabilityValues(rec, table, domain, labels, fails) ==
    IF rec.group_field # ""
    THEN LET all_groups == ReadGroup(table, domain, rec.group_field, "")
             \* group_id_map.get(str(label)), 0 for None
             GroupId(label) ==
                IF HasKey(all_groups, label, Lbl) THEN Gid(LastWith(all_groups, label, Lbl).key)
                ELSE 0
             Category(label) ==
                Search(table, domain \o <<[field |-> rec.group_field, op |-> "=",
                                          value |-> GroupId(label)]>>)
             searches == \E i \in 1..Len(labels) : GroupId(labels[i]) # 0
         IN  IF "c_groups" \in fails \/ ("c_search" \in fails /\ searches)
             THEN Zeros(Len(labels))
             ELSE [i \in 1..Len(labels) |->
                    IF GroupId(labels[i]) # 0 /\ Category(labels[i]) # <<>>
                    THEN AvgProbability(Category(labels[i]))
                    ELSE 0]
    ELSE IF "c_search" \in fails
         THEN (IF labels # <<>> THEN Zeros(Len(labels)) ELSE <<0>>)
         ELSE (IF Search(table, domain) # <<>> THEN <<AvgProbability(Search(table, domain))>>
               ELSE <<0>>)

NotFound == [status |-> "not_found", chart_calls |-> 0, aggregated |-> FALSE, template |-> ""]

\* the handler ended with an exception, after one get_chart_data call
Uncaught == [status |-> "raised", chart_calls |-> 1, aggregated |-> TRUE, template |-> ""]

Rendered(template, context) ==
    [status |-> "rendered", chart_calls |-> 1, aggregated |-> TRUE, template |-> template,
     context |-> context]

\* render_report after data = report.get_chart_data(): the statistics and the render
ReportPage(report, table, res, fails) ==
    LET success_dom == IF report.success_domain # "" /\ SafeEval(report.success_domain).ok
                       THEN SafeEval(report.success_domain).val ELSE <<>>
        domain == EvalDomain(report)
        labels == res.labels
        counts == res.count_values
        sums == res.sum_values
        total_leads == IF counts # <<>> THEN SumSeq(counts) ELSE SearchCount(table, domain)
        total_value == IF sums # <<>> THEN SumSeq(sums) ELSE 0
        success_leads == IF success_dom # <<>> /\ "c_success" \notin fails
                         THEN SearchCount(table, domain \o success_dom) ELSE 0
    IN  IF counts = <<>> /\ "c_count" \in fails THEN Uncaught
        ELSE Rendered("looker_studio.report_modern_template",
                [labels_json |-> Dumps(labels),
                 counts_json |-> Dumps(counts),
                 sums_json |-> Dumps(sums),
                 line_labels_json |-> Dumps(res.line_labels),
                 line_values_json |-> Dumps(res.line_values),
                 line_is_percentage |-> IF success_dom # <<>> THEN 1 ELSE 0,
                 stat_total_leads |-> total_leads,
                 stat_success_leads |-> success_leads,
                 stat_success_pct |-> IF total_leads # 0
                                      THEN RoundDiv(success_leads * 1000, total_leads) ELSE 0,
                 stat_total_value |-> total_value,
                 stat_avg_value |-> IF total_leads # 0 /\ total_value # 0
                                    THEN RoundDiv(total_value * 100, total_leads) ELSE 0,
                 probability_json |->
                    Dumps(ProbabilityValues(report, table, domain, labels, fails)),
                 values_json |-> Dumps(counts)])

\* RenderReport changed to call get_chart_data before looking whether the report exists
RenderReportUnchecked(report_id, fails, shape) == Uncaught

\* LookerReportController.render_report
RenderReport(report_id, fails, shape) ==
    IF report_id \notin 1..Len(store[CRM]) THEN NotFound
    ELSE ReportPage(store[CRM][report_id], tables["crm.lead"],
                    GetChartData(CRM, store[CRM][report_id], tables["crm.lead"], today,
                                 fails, shape),
                    fails)

\* render_order_report after data = report.get_chart_data()
OrderReportPage(report, table, res, fails) ==
    LET domain == EvalDomain(report)
        counts == res.count_values
        sums == res.sum_values
        total_orders == IF counts # <<>> THEN SumSeq(counts) ELSE SearchCount(table, domain)
        total_amount == IF sums # <<>> THEN SumSeq(sums) ELSE 0
    IN  IF counts = <<>> /\ "c_count" \in fails THEN Uncaught
        ELSE Rendered("looker_studio.report_order_template",
                [labels_json |-> Dumps(res.labels),
                 counts_json |-> Dumps(counts),
                 sums_json |-> Dumps(sums),
                 line_labels_json |-> Dumps(res.line_labels),
                 line_values_json |-> Dumps(res.line_values),
                 line_is_percentage |-> 0,
                 stat_total_leads |-> total_orders,
                 stat_success_leads |-> 0,
                 stat_success_pct |-> 0,
                 stat_total_value |-> total_amount,
                 stat_avg_value |-> IF total_orders # 0 /\ total_amount # 0
                                    THEN RoundDiv(total_amount * 100, total_orders) ELSE 0,
                 probability_json |-> Dumps(res.line_values),
                 values_json |-> Dumps(counts)])

\* LookerReportController.render_order_report
RenderOrderReport(report_id, fails, shape) ==
    IF report_id \notin 1..Len(store[ORDER]) THEN NotFound
    ELSE OrderReportPage(store[ORDER][report_id], tables["sale.order"],
                         GetChartData(ORDER, store[ORDER][report_id], tables["sale.order"],
                                      today, fails, shape),
                         fails)

\* a GET request arrives at /looker_studio/report/<id> or /looker_studio/order_report/<id>
CallRoute ==
    /\ pc = "idle"
    /\ \E m \in Models : \E report_id \in 1..(Len(store[m]) + 1) :
          call' = [op |-> "render", model |-> m, report_id |-> report_id]
    /\ pc' = "called"
    /\ UNCHANGED <<store, ensured, raised, database, outputs>>

\* the route /looker_studio/report/<int:report_id>
HandleReport ==
    /\ pc = "called" /\ call.op = "render" /\ call.model = CRM
    /\ \E fails \in FailSets(ModelSites(call.model) \cup ControllerSites(call.model)) : \E shape \in DayKeyShapes :
          LET resp == RenderReport(call.report_id, fails, shape)
          IN  /\ env' = [fails |-> fails, shape |-> shape]
              /\ response' = resp
              /\ raised' = IF resp.status = "raised" THEN "Exception" ELSE "none"
    /\ pc' = "done"
    /\ UNCHANGED <<store, call, ensured, database, data>>

\* the route /looker_studio/order_report/<int:report_id>
HandleOrderReport ==
    /\ pc = "called" /\ call.op = "render" /\ call.model = ORDER
    /\ \E fails \in FailSets(ModelSites(call.model) \cup ControllerSites(call.model)) : \E shape \in DayKeyShapes :
          LET resp == RenderOrderReport(call.report_id, fails, shape)
          IN  /\ env' = [fails |-> fails, shape |-> shape]
              /\ response' = resp
              /\ raised' = IF resp.status = "raised" THEN "Exception" ELSE "none"
    /\ pc' = "done"
    /\ UNCHANGED <<store, call, ensured, database, data>>

HttpNext == CallRoute \/ HandleReport \/ HandleOrderReport \/ Return

\* the stored reports the routes are requested for: those create() accepts
\* (value_field set), without limit or with the limit 1
HttpReports(m) == {r \in ChartReports(m) : r.value_field # "" /\ r.limit \in {0, 1}}

\* one stored report of one model, and rows in the table it aggregates
HttpInit ==
    /\ today \in TodayChoices
    /\ \E m \in Models :
          /\ \E r \in HttpReports(m) : store = [x \in Models |-> IF x = m THEN <<r>> ELSE <<>>]
          /\ \E tb \in Tables(SourceModel(m), today) :
                tables = [sm \in {"crm.lead", "sale.order"} |->
                            IF sm = SourceModel(m) THEN tb ELSE <<>>]
    /\ Quiet

HttpSpec == HttpInit /\ [][HttpNext]_vars

\* ------------------------------------------------------------------ claims
\* a vals dict in which group_field or value_field is missing or empty
MissingRequired(v) ==
    \/ "group_field" \notin DOMAIN v \/ v["group_field"] = ""
    \/ "value_field" \notin DOMAIN v \/ v["value_field"] = ""

\* C1: a create (either model, dict or list) with an entry whose group_field or
\* value_field is missing or empty raises UserError and leaves both tables as they
\* were, so no entry of the list is stored.
C1_CreateRejectsMissing ==
    [][(pc = "called" /\ call.op = "create"
            /\ \E i \in 1..Len(call.vals) : MissingRequired(call.vals[i]))
        => (raised' = "UserError" /\ store' = store)]_vars

\* a list create whose first entry is complete and whose second is not has raised
C1_Witness ==
    /\ pc = "done" /\ call.op = "create" /\ call.is_list /\ Len(call.vals) = 2
    /\ ~MissingRequired(call.vals[1]) /\ MissingRequired(call.vals[2])
    /\ raised = "UserError" /\ TotalStored = 0

\* C2: every stored report of either model has a non-empty group_field and a
\* non-empty value_field, after any sequence of create and write.
C2_RequiredAlwaysSet ==
    \A m \in Models : \A i \in 1..Len(store[m]) :
        store[m][i].group_field # "" /\ store[m][i].value_field # ""

\* the vals dict the i-th dict of `ensured` was computed from
EnsuredInput(i) == IF call.op = "create" THEN call.vals[i] ELSE call.vals

\* every text the description templates of model m can produce for key k
GeneratedTexts(m, k) ==
    LET F == {"", GroupFieldOf(m), ValueFieldOf(m)}
    IN  IF k = "pie_description" THEN {PieText(m, g) : g \in F}
        ELSE IF k = "bar_description" THEN {BarText(m, g, v) : g \in F, v \in F}
        ELSE {LineText(m, v, d) : v \in F, d \in {"", "d"}}

\* C6: _ensure_auto_descriptions keeps every key of vals with its value (a present
\* description key keeps even an empty value), adds each absent description key
\* with a generated text, and adds no other key.
C6_EnsureOnlySetsAbsent ==
    pc = "done" =>
        \A i \in 1..Len(ensured) :
            LET v == EnsuredInput(i)
                out == ensured[i]
            IN  /\ DOMAIN out = DOMAIN v \cup DescKeys
                /\ \A k \in DOMAIN v : out[k] = v[k]
                /\ \A k \in DescKeys \ DOMAIN v : out[k] \in GeneratedTexts(call.model, k)

\* a dict with an empty pie_description and no bar_description went through
C6_Witness ==
    /\ pc = "done" /\ Len(ensured) >= 1
    /\ "pie_description" \in DOMAIN EnsuredInput(1)
    /\ EnsuredInput(1)["pie_description"] = ""
    /\ "bar_description" \notin DOMAIN EnsuredInput(1)
    /\ ensured[1]["pie_description"] = ""
    /\ ensured[1]["bar_description"] # ""

\* C7: a write whose vals mention no description field leaves every non-empty
\* stored description of the written records unchanged.
C7_WriteKeepsDescriptions ==
    [][(pc = "called" /\ call.op = "write" /\ DOMAIN call.vals \cap DescKeys = {})
        => \A i \in Exists(call.model, call.ids) : \A k \in DescKeys :
              store[call.model][i][k] # ""
                  => store'[call.model][i][k] = store[call.model][i][k]]_vars

\* a get_chart_data call has ended; the report it was called on and its source table
ChartDone == pc = "done" /\ call.op = "get_chart_data"
ChartRec == store[call.model][call.id]
ChartTable == tables[SourceModel(call.model)]

ResultKeys == {"labels", "count_values", "sum_values", "line_labels", "line_values"}

\* a Python list: a finite sequence
IsList(x) == DOMAIN x = 1..Len(x)

\* C3: get_chart_data on one report of either model returns, whatever is stored
\* and whichever ORM call raises, a dict with exactly the keys labels, count_values,
\* sum_values, line_labels and line_values, each a list; no exception leaves it.
C3_AlwaysFiveLists ==
    ChartDone =>
        /\ raised = "none"
        /\ DOMAIN data = ResultKeys
        /\ \A k \in ResultKeys : IsList(data[k])

\* search_count raised in the branch without group_field: the empty lists came back
C3_Witness ==
    /\ ChartDone /\ ChartRec.group_field = "" /\ "count" \in env.fails
    /\ raised = "none" /\ data.labels = <<>> /\ data.line_labels = <<>>

\* the day line_labels[i] names
WindowDay(i) == today - (N - i)

\* the rows of the report's source table that match domain and were created on day d
CreatedOn(domain, d) ==
    {j \in 1..Len(ChartTable) :
        /\ \A t \in 1..Len(domain) : TermHolds(ChartTable[j], domain[t])
        /\ ChartTable[j].create_date = d}

RECURSIVE SumOver(_, _)
SumOver(S, f) ==
    IF S = {} THEN 0
    ELSE LET j == CHOOSE x \in S : TRUE
         IN  ChartTable[j][f] + SumOver(S \ {j}, f)

\* the success domain of the report evaluates to a non-empty domain
SuccessApplies ==
    /\ call.model = CRM /\ ChartRec.success_domain # ""
    /\ SafeEval(ChartRec.success_domain).ok /\ SafeEval(ChartRec.success_domain).val # <<>>

\* the success percentage of day d in tenths: matching domain plus success_domain
\* over matching domain, 0 for a day without leads
SuccessPct(d) ==
    LET all == CreatedOn(EvalDomain(ChartRec), d)
        succ == CreatedOn(EvalDomain(ChartRec) \o SafeEval(ChartRec.success_domain).val, d)
    IN  IF all = {} THEN 0 ELSE RoundDiv(Cardinality(succ) * 1000, Cardinality(all))

\* C8: with a non-empty success domain and no failing ORM call, every line_values
\* entry of a CRM report is the success percentage of its day (successful leads of
\* the day over leads of the day, times 100) and lies between 0 and 100, for every
\* setting of value_field.
C8_LineIsSuccessPercentage ==
    (ChartDone /\ SuccessApplies /\ env.fails = {}) =>
        \A i \in 1..Len(data.line_values) :
            /\ data.line_values[i] = SuccessPct(WindowDay(i))
            /\ data.line_values[i] >= 0 /\ data.line_values[i] <= 1000

\* C9: when get_chart_data succeeds (no ORM call raised), line_labels is the 14
\* consecutive days ending today, ascending; line_values has 14 entries; and without
\* a success domain line_values[i] is the sum of value_field (when set) or the count
\* (otherwise) of the matching rows created on day line_labels[i], 0 without rows.
C9_LineIsDailyAggregate ==
    (ChartDone /\ env.fails = {} /\ raised = "none") =>
        /\ data.line_labels = [i \in 1..14 |-> IsoDay(today - (14 - i))]
        /\ Len(data.line_values) = 14
        /\ ~SuccessApplies =>
              \A i \in 1..14 :
                 LET rows == CreatedOn(EvalDomain(ChartRec), WindowDay(i))
                 IN  data.line_values[i] =
                        IF ChartRec.value_field # "" THEN SumOver(rows, ChartRec.value_field)
                        ELSE Cardinality(rows)

\* the groups read_group yields for the report, with the count and the sum of each
CrmGroups ==
    ReadGroup(ChartTable, EvalDomain(ChartRec), ChartRec.group_field, ChartRec.value_field)

\* the value Top-N sorts group g by
SortValue(g) == IF ChartRec.value_field # "" THEN g.value ELSE g.count

\* the category at position i of the result is group g
IsCategory(i, g) ==
    /\ data.labels[i] = Lbl(g.key)
    /\ data.count_values[i] = g.count
    /\ data.sum_values[i] = SortValue(g)

\* C10: a CRM report with group_field set whose grouped read_group calls succeed:
\* with limit > 0 and more than limit groups it returns exactly limit categories,
\* in descending order of sum (value_field set) or count, and no dropped group has a
\* larger sort value than a kept one; otherwise it returns every group once, in
\* read_group's order.
C10_TopNLimit ==
    (ChartDone /\ call.model = CRM /\ ChartRec.group_field # ""
        /\ env.fails \cap {"groups", "sum"} = {}) =>
        LET gs == CrmGroups
            lim == ChartRec.limit
        IN  IF lim > 0 /\ Len(gs) > lim
            THEN /\ Len(data.labels) = lim
                 /\ Len(data.count_values) = lim /\ Len(data.sum_values) = lim
                 /\ \E idx \in [1..lim -> 1..Len(gs)] :
                       /\ \A i, j \in 1..lim : i # j => idx[i] # idx[j]
                       /\ \A i \in 1..lim : IsCategory(i, gs[idx[i]])
                       /\ \A i \in 1..(lim - 1) :
                             SortValue(gs[idx[i]]) >= SortValue(gs[idx[i + 1]])
                       /\ \A d \in 1..Len(gs) :
                             (\A i \in 1..lim : idx[i] # d)
                                 => \A i \in 1..lim : SortValue(gs[d]) <= SortValue(gs[idx[i]])
            ELSE /\ Len(data.labels) = Len(gs)
                 /\ Len(data.count_values) = Len(gs) /\ Len(data.sum_values) = Len(gs)
                 /\ \A i \in 1..Len(gs) : IsCategory(i, gs[i])

\* limit 1 with two groups, sorted by sum: the second group of read_group is kept
C10_Witness ==
    /\ ChartDone /\ call.model = CRM /\ ChartRec.group_field # ""
    /\ ChartRec.value_field # "" /\ ChartRec.limit = 1 /\ env.fails = {}
    /\ Len(CrmGroups) = 2 /\ SortValue(CrmGroups[1]) < SortValue(CrmGroups[2])
    /\ data.labels = <<Lbl(CrmGroups[2].key)>>

\* a route handler has answered
HttpDone == pc = "done" /\ call.op = "render"

\* the requested report_id names a stored report of the route's model
ReportExists == call.report_id \in 1..Len(store[call.model])

\* C4: for an existing report both routes end by rendering the page: no failure
\* of an ORM aggregation call made during the request leaves the handler.
C4_AlwaysRenders ==
    (HttpDone /\ ReportExists) => (response.status = "rendered" /\ raised = "none")

C11_OrderLimitEveryBranch ==
    (ChartDone /\ call.model = ORDER /\ ChartRec.group_field # "" /\ ChartRec.limit > 0)
        => Len(data.labels) <= ChartRec.limit

\* the rows of the report's source table that match its domain
Matching ==
    {j \in 1..Len(ChartTable) :
        \A t \in 1..Len(EvalDomain(ChartRec)) : TermHolds(ChartTable[j], EvalDomain(ChartRec)[t])}

\* the matching orders with a date_order
Dated == {j \in Matching : ChartTable[j].date_order # 0}

RelValue(j) ==
    IF ChartTable[j].partner_id = 0 \/ "related" \in env.fails THEN 0
    ELSE PartnerCountry(ChartTable[j].partner_id)

RelValues == {RelValue(j) : j \in Matching}

RelLabel(v) == IF v = 0 THEN "Undefined" ELSE CountryName(v)

C14_EqualLengths ==
    ChartDone =>
        /\ Len(data.labels) = Len(data.count_values)
        /\ Len(data.labels) = Len(data.sum_values)
        /\ Len(data.line_labels) = Len(data.line_values)
        /\ Len(data.line_labels) \in {0, 14}
        /\ env.fails = {} => Len(data.line_labels) = 14
        /\ Len(data.line_labels) = 0 => Len(data.labels) = 0

\* a grouped result with several categories, one of them with a zero sum
C14_Witness ==
    /\ ChartDone /\ ChartRec.group_field # "" /\ ChartRec.value_field # ""
    /\ env.fails = {}
    /\ Len(data.labels) >= 2 /\ Len(data.sum_values) = Len(data.labels)
    /\ \E i \in 1..Len(data.sum_values) : data.sum_values[i] = 0
    /\ Len(data.line_values) = 14

\* the stored domain text of the report is not empty and safe_eval raises on it
Unparsable == ChartRec.domain # "" /\ ~SafeEval(ChartRec.domain).ok

\* C15: _eval_domain raises nothing; it returns [] for an empty domain text and for
\* one that cannot be evaluated, and the evaluated value otherwise; so a report with
\* an unparsable domain aggregates over every row of its source table: without
\* group_field its one count is the size of the table, and with a group_field and
\* no limit its counts sum to the size of the table (the rows with a date_order for
\* the weekday grouping).
C15_EvalDomainNeverRaises ==
    ChartDone =>
        /\ raised = "none"
        /\ (ChartRec.domain = "" \/ Unparsable) => EvalDomain(ChartRec) = <<>>
        /\ (ChartRec.domain # "" /\ ~Unparsable)
              => EvalDomain(ChartRec) = SafeEval(ChartRec.domain).val
        /\ (Unparsable /\ env.fails = {}) =>
              /\ Matching = 1..Len(ChartTable)
              /\ ChartRec.group_field = "" => data.count_values = <<Len(ChartTable)>>
              /\ (ChartRec.group_field # "" /\ ChartRec.limit = 0) =>
                    SumSeq(data.count_values) =
                        IF ChartRec.group_field = "date_order_weekday"
                        THEN Cardinality(Dated) ELSE Len(ChartTable)

\* a report with an unparsable domain over rows a filter would tell apart
C15_Witness ==
    /\ ChartDone /\ Unparsable /\ env.fails = {} /\ ChartRec.group_field = ""
    /\ \E j, k \in 1..Len(ChartTable) : ChartTable[j].flag /\ ~ChartTable[k].flag
    /\ data.count_values = <<Len(ChartTable)>>

\* the report a route was requested for, and the leads matching its domain
HttpRec == store[call.model][call.report_id]
HttpTable == tables[SourceModel(call.model)]
HttpMatching ==
    {j \in 1..Len(HttpTable) :
        \A t \in 1..Len(EvalDomain(HttpRec)) : TermHolds(HttpTable[j], EvalDomain(HttpRec)[t])}

\* the label of the category a lead belongs to when grouped by stage_id
CategoryLabel(j) ==
    IF HttpTable[j].stage_id = 0 THEN "Undefined"
    ELSE DisplayName("stage_id", HttpTable[j].stage_id)

RECURSIVE SumProbability(_)
SumProbability(S) ==
    IF S = {} THEN 0
    ELSE LET j == CHOOSE x \in S : TRUE
         IN  HttpTable[j].probability + SumProbability(S \ {j})

\* C16: render_report for a report with group_field set gives probability_json one
\* entry per label, and, when no ORM call raised, the entry of a label is the
\* average probability (one decimal, in tenths) of the matching leads of that
\* label's category, the 'Undefined' category included, and 0.0 only for a
\* category without leads.
C16_ProbabilityPerLabel ==
    (HttpDone /\ call.model = CRM /\ ReportExists /\ response.status = "rendered"
        /\ HttpRec.group_field # "") =>
        LET labels == response.context.labels_json.json
            probs == response.context.probability_json.json
        IN  /\ Len(probs) = Len(labels)
            /\ env.fails = {} =>
                  \A i \in 1..Len(labels) :
                     LET leads == {j \in HttpMatching : CategoryLabel(j) = labels[i]}
                     IN  probs[i] = IF leads = {} THEN 0
                                    ELSE RoundDiv(SumProbability(leads) * 10,
                                                  Cardinality(leads))

\* C17: _onchange_auto_descriptions of either model leaves every description that
\* is not empty as it is, gives every empty one the text its builder generates from
\* the record's fields as they are, and changes no other field of the record.
C17_OnchangeKeepsDescriptions ==
    [][(pc = "called" /\ call.op = "onchange") =>
        LET m == call.model
            before == call.rec
            after == call'.rec
            built == [pie_description |-> BuildPieDescription(m, before),
                      bar_description |-> BuildBarDescription(m, before),
                      line_description |-> BuildLineDescription(m, before)]
        IN  /\ DOMAIN after = DOMAIN before
            /\ \A k \in DOMAIN before \ DescKeys : after[k] = before[k]
            /\ \A k \in DescKeys :
                  /\ before[k] # "" => after[k] = before[k]
                  /\ before[k] = "" => (after[k] = built[k] /\ after[k] # "")]_vars

\* an onchange on a record with a written pie description and no bar description
C17_Witness ==
    /\ pc = "done" /\ call.op = "onchange"
    /\ call.rec.group_field # "" /\ call.rec.value_field # ""
    /\ call.rec.pie_description = "custom"
    /\ call.rec.bar_description = BuildBarDescription(call.model, call.rec)
    /\ call.rec.line_description = BuildLineDescription(call.model, call.rec)

\* C18: when no ORM call raised, the statistics of render_report agree with the
\* leads: stat_total_leads is the number of leads matching the report domain,
\* stat_success_leads is at most stat_total_leads, and stat_success_pct (in tenths)
\* lies between 0 and 100, for every limit, group_field and success_domain.
C18_StatsConsistent ==
    (HttpDone /\ call.model = CRM /\ ReportExists /\ response.status = "rendered"
        /\ env.fails = {}) =>
        /\ response.context.stat_total_leads = Cardinality(HttpMatching)
        /\ response.context.stat_success_leads <= response.context.stat_total_leads
        /\ response.context.stat_success_pct >= 0
        /\ response.context.stat_success_pct <= 1000

====
